---- MODULE Spec2Model ----
(***************************************************************************)
(* Dependency-gated process supervisor of src/orch/backend.py, together    *)
(* with the shutdown handler OrchApp.action_quit of src/orch/app.py.       *)
(*                                                                         *)
(* One step of the model is one uninterrupted run of a coroutine between  *)
(* two suspension points of the asyncio event loop (an unbounded          *)
(* asyncio.Queue.put never suspends), or one event of the environment     *)
(* (a child exits, a child writes to its PTY, the clock advances, the     *)
(* user presses the quit key).                                            *)
(***************************************************************************)
EXTENDS Integers, Sequences, FiniteSets, TLC

\* ------------------------------------------------------------------ bounds
Horizon == 1          \* the early instants 1..Horizon of the monotonic clock
MaxBytes == 3         \* bytes the children write to their terminals, all together
MaxQuits == 2         \* times the quit key is pressed
MaxDeps == 2          \* entries of one depends_on list in a configuration file
TopoN == 3            \* tasks of a mapping handed to topo_order on its own

\* --------------------------------------------------------------- constants
READY_TIMEOUT == 30
READ_SIZE == 1024     \* os.read(primary_fd, 1024)
FirstFd == 3

\* The configuration under study has two tasks, named by their position in
\* the file; the second may list the first in its depends_on.
Tasks == {1, 2}
Kinds == {"oneshot", "service", "daemon"}
PENDING == "Pending"
RUNNING == "Running"
READY == "Ready"
FAILED == "Failed"
States == {PENDING, RUNNING, READY, FAILED}

\* exit statuses of a child: success, failure, killed by SIGKILL
ExitCodes == {0, 1}
SIGKILLED == -9

\* per-task readiness timeouts a configuration may ask for
ReadyTimeouts == {1, READY_TIMEOUT}

VARIABLES
    kind, depends_on, ready_cmd, ready_timeout,   \* TaskCfg (immutable after load)
    state, ready, proc, start_time, end_time,     \* TaskRt
    pty_primary, pty_secondary,                   \* TaskRt
    log_queue,                                    \* OrchestratorBackend.log_queue, every record put so far
    run_pc,                                       \* position of run()
    pc,                                           \* position of each _run_task
    probe_pc, probe_start,                        \* position of _probe_ready, when wait_for began
    pump_pc,                                      \* position of pump()
    child, returncode,                            \* the child process and its exit status
    written,                                      \* every byte the child has written so far
    pty_buf,                                      \* the bytes written and not yet read
    open_fds,                                     \* descriptors open in the orchestrator process
    now,                                          \* time.monotonic()
    quits,                                        \* action_quit calls so far
    ever_ready,                                   \* history: tasks whose state has been Ready
    ready_sets,                                   \* history: calls of tr.ready.set() so far
    topo_cfgs, topo_result                        \* an argument of topo_order and what it gave

cfg_vars == <<kind, depends_on, ready_cmd, ready_timeout>>

vars == <<kind, depends_on, ready_cmd, ready_timeout,
          state, ready, proc, start_time, end_time, pty_primary, pty_secondary,
          log_queue, run_pc, pc, probe_pc, probe_start, pump_pc,
          child, returncode, written, pty_buf, open_fds, now, quits, ever_ready,
          ready_sets, topo_cfgs, topo_result>>
topo_vars == <<topo_cfgs, topo_result>>

\* ------------------------------------------------------------ topo_order
\* ChildList with a task entered once in child[d] however often it lists d
RECURSIVE ChildListOnce(_, _, _)
ChildListOnce(deps, d, c) ==
    IF c > Len(deps) THEN <<>>
    ELSE (IF \E i \in 1..Len(deps[c]) : deps[c][i] = d THEN <<c>> ELSE <<>>)
         \o ChildListOnce(deps, d, c + 1)

\* child[d]: the names of the tasks that list d, in configuration order,
\* once per occurrence of d in their depends_on.
RECURSIVE ChildList(_, _, _)
ChildList(deps, d, c) ==
    IF c > Len(deps) THEN <<>>
    ELSE [i \in 1..Len(SelectSeq(deps[c], LAMBDA x : x = d)) |-> c]
         \o ChildList(deps, d, c + 1)

\* the inner for-loop of topo_order: decrement each successor, enqueue at zero
RECURSIVE Release(_, _, _)
Release(chs, q, indeg) ==
    IF chs = <<>> THEN [q |-> q, indeg |-> indeg]
    ELSE LET ch == Head(chs)
             nd == [indeg EXCEPT ![ch] = @ - 1]
         IN  Release(Tail(chs), IF nd[ch] = 0 THEN Append(q, ch) ELSE q, nd)

\* the while-loop of topo_order
RECURSIVE Kahn(_, _, _, _)
Kahn(deps, q, order, indeg) ==
    IF q = <<>> THEN order
    ELSE LET n == Head(q)
             r == Release(ChildList(deps, n, 1), Tail(q), indeg)
         IN  Kahn(deps, r.q, Append(order, n), r.indeg)

KahnOrder(deps) ==
    LET indeg == [n \in 1..Len(deps) |-> Len(deps[n])]
        q == SelectSeq([n \in 1..Len(deps) |-> n], LAMBDA n : indeg[n] = 0)
    IN  Kahn(deps, q, <<>>, indeg)

\* topo_order(cfgs): the order, and whether the code raises ValueError instead
topo_order(deps) ==
    LET order == KahnOrder(deps)
    IN  [raised |-> Len(order) # Len(deps), order |-> order]

\* topo_order has not been called
NoResult == [raised |-> FALSE, order |-> <<>>]

\* ------------------------------------------------------------------ helpers
Range(s) == {s[i] : i \in 1..Len(s)}

\* A byte of a child's output is a line terminator or not; pos, its place in
\* the child's output, tells the bytes apart.
Byte(i, nl) == [pos |-> i, nl |-> nl]

\* a log record: a status record "[name] text", or an output record
\* "[name] | line" (text "out") with the bytes of its line
Rec(n, text, line) == [name |-> n, text |-> text, line |-> line]

\* str.splitlines() of a chunk: the terminators end a line and are dropped, a
\* last piece without terminator is a line, an empty piece after the last
\* terminator is none
RECURSIVE SplitFrom(_, _, _)
SplitFrom(bs, cur, out) ==
    IF bs = <<>> THEN (IF cur = <<>> THEN out ELSE Append(out, cur))
    ELSE IF Head(bs).nl THEN SplitFrom(Tail(bs), <<>>, Append(out, cur))
    ELSE SplitFrom(Tail(bs), Append(cur, Head(bs).pos), out)

splitlines(bs) == SplitFrom(bs, <<>>, <<>>)

\* pty.openpty(): the two lowest descriptors that are free
LowestFree(fds) == CHOOSE f \in FirstFd..(FirstFd + 4 * Cardinality(Tasks)) :
                       f \notin fds /\ \A g \in FirstFd..(f - 1) : g \in fds
openpty(fds) ==
    LET p == LowestFree(fds)
        s == LowestFree(fds \cup {p})
    IN  <<p, s>>

\* the sorted sequences over the subsets of 1..(t-1): what task t may depend on
RECURSIVE SortedSeq(_)
SortedSeq(S) ==
    IF S = {} THEN <<>>
    ELSE LET m == CHOOSE x \in S : \A y \in S : x <= y
         IN  <<m>> \o SortedSeq(S \ {m})

HasProbe(t) == kind[t] = "service" /\ ready_cmd[t]

\* The clock is sampled at the instants at which something can depend on it:
\* the early instants, and for every task that is probed the instants one
\* readiness timeout (the default one, or the one the task asks for) later.
Instants ==
    (1..Horizon) \cup {i + d : i \in 1..Horizon,
                               d \in UNION {{READY_TIMEOUT, ready_timeout[t]} :
                                               t \in {u \in Tasks : HasProbe(u)}}}

\* a TaskCfg without its name and depends_on, as a number
CfgRank(t) ==
    (CASE kind[t] = "oneshot" -> 0 [] kind[t] = "service" -> 4 [] kind[t] = "daemon" -> 8)
    + (IF ready_cmd[t] THEN 2 ELSE 0)
    + (IF ready_timeout[t] = READY_TIMEOUT THEN 0 ELSE 1)

\* the runtime records as OrchestratorBackend.__init__ builds them, and the
\* rest of the world before run() is called
Constructed ==
    /\ state = [t \in Tasks |-> PENDING]
    /\ ready = [t \in Tasks |-> FALSE]
    /\ proc = [t \in Tasks |-> FALSE]
    /\ start_time = [t \in Tasks |-> 0]
    /\ end_time = [t \in Tasks |-> 0]
    /\ pty_primary = [t \in Tasks |-> -1]
    /\ pty_secondary = [t \in Tasks |-> -1]
    /\ log_queue = <<>>
    /\ pc = [t \in Tasks |-> "new"]
    /\ probe_pc = [t \in Tasks |-> "none"]
    /\ probe_start = [t \in Tasks |-> 0]
    /\ pump_pc = [t \in Tasks |-> "none"]
    /\ child = [t \in Tasks |-> "none"]
    /\ returncode = [t \in Tasks |-> 0]
    /\ written = [t \in Tasks |-> <<>>]
    /\ pty_buf = [t \in Tasks |-> <<>>]
    /\ open_fds = {}
    /\ now = 1
    /\ quits = 0
    /\ ever_ready = {}
    /\ ready_sets = [t \in Tasks |-> 0]

\* -------------------------------------------------------------------- Init
Init ==
    /\ kind \in [Tasks -> Kinds]
    /\ ready_cmd \in [Tasks -> BOOLEAN]
    /\ depends_on \in [Tasks -> {SortedSeq(S) : S \in SUBSET Tasks}]
    /\ \A t \in Tasks : \A d \in Range(depends_on[t]) : d < t
    /\ ready_timeout \in [Tasks -> ReadyTimeouts]
    /\ \A t \in Tasks : ~(kind[t] = "service" /\ ready_cmd[t])
                            => ready_timeout[t] = READY_TIMEOUT
    \* a ready_cmd is read for services and daemons only
    /\ \A t \in Tasks : kind[t] = "oneshot" => ~ready_cmd[t]
    \* two tasks without a dependency between them are interchangeable (only
    \* the order of their rows differs): one of the two orders is kept
    /\ \A t, u \in Tasks :
          (t < u /\ t \notin Range(depends_on[u])) => CfgRank(t) <= CfgRank(u)
    /\ Constructed
    /\ run_pc = "start"
    /\ topo_cfgs = <<>>
    /\ topo_result = NoResult

\* history: the tasks whose state has been Ready at some moment
Track == ever_ready' = ever_ready \cup {u \in Tasks : state'[u] = READY}

\* ------------------------------------------------------------------- run()
\* run(): plan the order and launch one supervisor per task
RunStart ==
    /\ run_pc = "start"
    /\ IF topo_order(depends_on).raised
       THEN /\ run_pc' = "raised"
            /\ pc' = pc
       ELSE /\ run_pc' = "gather"
            /\ pc' = [t \in Tasks |-> "deps"]
    /\ UNCHANGED <<cfg_vars, topo_vars, state, ready, ready_sets, proc, start_time, end_time, pty_primary,
                   pty_secondary, log_queue, probe_pc, probe_start, pump_pc, child,
                   returncode, written, pty_buf, open_fds, now, quits, ever_ready>>

\* a supervisor that run() launched and that has not finished
Active(t) == pc[t] \in {"deps", "spawn", "probe", "wait"}

\* gather(*runners) without return_exceptions: the first exception of a
\* supervisor ends run() at once, the other supervisors keep running
RunRaise ==
    /\ run_pc = "gather"
    /\ \E t \in Tasks : pc[t] = "raised"
    /\ run_pc' = "raised"
    /\ UNCHANGED <<cfg_vars, topo_vars, state, ready, ready_sets, proc, start_time, end_time, pty_primary,
                   pty_secondary, log_queue, pc, probe_pc, probe_start, pump_pc, child,
                   returncode, written, pty_buf, open_fds, now, quits, ever_ready>>

RunReturn ==
    /\ run_pc = "gather"
    /\ \A t \in Tasks : pc[t] = "done"
    /\ run_pc' = "returned"
    /\ UNCHANGED <<cfg_vars, topo_vars, state, ready, ready_sets, proc, start_time, end_time, pty_primary,
                   pty_secondary, log_queue, pc, probe_pc, probe_start, pump_pc, child,
                   returncode, written, pty_buf, open_fds, now, quits, ever_ready>>

\* The cancelled run() finishes: the gather it awaits is done once every
\* supervisor has finished, and run() is then resumed with CancelledError.
RunCancelled ==
    /\ run_pc = "cancelling"
    /\ \A t \in Tasks : ~Active(t)
    /\ run_pc' = "cancelled"
    /\ UNCHANGED <<cfg_vars, topo_vars, state, ready, ready_sets, proc, start_time,
                   end_time, pty_primary, pty_secondary, log_queue, pc, probe_pc,
                   probe_start, pump_pc, child, returncode, written, pty_buf,
                   open_fds, now, quits, ever_ready>>

\* -------------------------------------------------------------- _run_task
\* DepsReleased with the supervisors started one after the other: a task
\* also waits for every task that precedes it
DepsReleasedSerial(t) == \A d \in Tasks : d < t => ready[d]

\* the dependency barrier: every dependency's ready event is set
DepsReleased(t) == \A d \in Range(depends_on[t]) : ready[d]

\* outcomes of pty.openpty() and of the fork inside create_subprocess_shell
SpawnOutcomes == {"ok", "openpty fails", "spawn fails"}

\* From the barrier to the first suspension inside create_subprocess_shell:
\* the child is forked here, its handle is stored in tr.proc by the next step.
EnterRunning(t, outcome) ==
    /\ pc[t] = "deps"
    /\ DepsReleased(t)
    /\ state' = [state EXCEPT ![t] = RUNNING]
    /\ start_time' = [start_time EXCEPT ![t] = now]
    /\ log_queue' = Append(log_queue, Rec(t, "started", <<>>))
    /\ IF outcome = "openpty fails"
       THEN /\ pc' = [pc EXCEPT ![t] = "raised"]
            /\ UNCHANGED <<pty_primary, pty_secondary, open_fds, child>>
       ELSE /\ pty_primary' = [pty_primary EXCEPT ![t] = openpty(open_fds)[1]]
            /\ pty_secondary' = [pty_secondary EXCEPT ![t] = openpty(open_fds)[2]]
            /\ open_fds' = open_fds \cup Range(openpty(open_fds))
            /\ IF outcome = "spawn fails"
               THEN /\ pc' = [pc EXCEPT ![t] = "raised"]
                    /\ child' = child
               ELSE /\ pc' = [pc EXCEPT ![t] = "spawn"]
                    /\ child' = [child EXCEPT ![t] = "alive"]
    /\ Track
    /\ UNCHANGED <<cfg_vars, topo_vars, ready, ready_sets, proc, end_time, run_pc, probe_pc, probe_start,
                   pump_pc, returncode, written, pty_buf, now, quits>>

\* ReadyBranch with the kind test of the second branch dropped: every task
\* without a probe is made Ready on spawn
ReadyBranchAnyKind(t) ==
    IF kind[t] = "service" /\ ready_cmd[t] THEN "probe" ELSE "ready"

\* ReadyBranch with the kind test of the first branch dropped: every task
\* with a ready_cmd is probed
ReadyBranchByCmd(t) ==
    IF ready_cmd[t] THEN "probe"
    ELSE IF kind[t] \in {"service", "daemon"} THEN "ready"
    ELSE "none"

\* the readiness branch taken once the child is spawned
ReadyBranch(t) ==
    IF kind[t] = "service" /\ ready_cmd[t] THEN "probe"
    ELSE IF kind[t] \in {"service", "daemon"} THEN "ready"
    ELSE "none"

\* the timeout handed to asyncio.wait_for(self._probe_ready(tr), ...)
WaitForTimeout(t) == READY_TIMEOUT

\* the instant at which wait_for's timer is due
Deadline(t) == probe_start[t] + WaitForTimeout(t)

\* create_subprocess_shell returns: store the handle, close the slave end,
\* start the pump, decide readiness, suspend in wait_for or in proc.wait()
SpawnDone(t) ==
    /\ pc[t] = "spawn"
    /\ proc' = [proc EXCEPT ![t] = TRUE]
    /\ open_fds' = open_fds \ {pty_secondary[t]}
    /\ pump_pc' = [pump_pc EXCEPT ![t] = "reading"]
    /\ CASE ReadyBranch(t) = "probe" ->
              /\ pc' = [pc EXCEPT ![t] = "probe"]
              /\ probe_pc' = [probe_pc EXCEPT ![t] = "probing"]
              /\ probe_start' = [probe_start EXCEPT ![t] = now]
              /\ UNCHANGED <<state, ready, ready_sets>>
         [] ReadyBranch(t) = "ready" ->
              /\ state' = [state EXCEPT ![t] = READY]
              /\ ready' = [ready EXCEPT ![t] = TRUE]
              /\ ready_sets' = [ready_sets EXCEPT ![t] = @ + 1]
              /\ pc' = [pc EXCEPT ![t] = "wait"]
              /\ UNCHANGED <<probe_pc, probe_start>>
         [] OTHER ->
              /\ pc' = [pc EXCEPT ![t] = "wait"]
              /\ UNCHANGED <<state, ready, ready_sets, probe_pc, probe_start>>
    /\ Track
    /\ UNCHANGED <<cfg_vars, topo_vars, start_time, end_time, pty_primary, pty_secondary,
                   log_queue, run_pc, child, returncode, written, pty_buf, now, quits>>

\* ExitState with the exit code of a oneshot ignored
ExitStateIgnoresCode(k, code, old) ==
    IF k = "oneshot" THEN READY
    ELSE IF code # 0 THEN FAILED ELSE old

\* ExitState with every kind finalized the way a oneshot is
ExitStateAnyKind(k, code, old) ==
    IF code = 0 THEN READY ELSE FAILED

\* the state a supervisor writes when it observes its child's exit code
ExitState(k, code, old) ==
    IF k = "oneshot" THEN (IF code = 0 THEN READY ELSE FAILED)
    ELSE IF code # 0 THEN FAILED ELSE old

\* ExitSetsReady with the event set for every kind
ExitSetsReadyAnyKind(k, code) == TRUE

\* ExitSetsReady with the event set after every clean exit, whatever the kind
ExitSetsReadyOnSuccess(k, code) == code = 0

\* whether the supervisor sets the ready event after the child's exit
ExitSetsReady(k, code) == k = "oneshot"

\* WaitReturns with the supervisor going on without awaiting the exit
WaitReturnsAtOnce(t) == child[t] # "none"

\* await tr.proc.wait() returns once the child has exited
WaitReturns(t) == child[t] = "exited"

\* proc.wait() returns: record end_time, finalize the state, return
ObserveExit(t) ==
    /\ pc[t] = "wait"
    /\ WaitReturns(t)
    /\ end_time' = [end_time EXCEPT ![t] = now]
    /\ state' = [state EXCEPT ![t] = ExitState(kind[t], returncode[t], state[t])]
    /\ ready' = [ready EXCEPT ![t] = @ \/ ExitSetsReady(kind[t], returncode[t])]
    /\ ready_sets' = [ready_sets EXCEPT
                        ![t] = IF ExitSetsReady(kind[t], returncode[t]) THEN @ + 1 ELSE @]
    /\ pc' = [pc EXCEPT ![t] = "done"]
    /\ Track
    /\ UNCHANGED <<cfg_vars, topo_vars, proc, start_time, pty_primary, pty_secondary, log_queue,
                   run_pc, probe_pc, probe_start, pump_pc, child, returncode, written,
                   pty_buf, open_fds, now, quits>>

\* ------------------------------------------------------------ _probe_ready
\* the probe child exits: 0 makes the task Ready and ends wait_for,
\* anything else sends the prober to sleep(0.5)
ProbeExit(t, ok) ==
    /\ pc[t] = "probe"
    /\ probe_pc[t] = "probing"
    /\ IF ok
       THEN /\ state' = [state EXCEPT ![t] = READY]
            /\ ready' = [ready EXCEPT ![t] = TRUE]
            /\ ready_sets' = [ready_sets EXCEPT ![t] = @ + 1]
            /\ log_queue' = Append(log_queue, Rec(t, "ready", <<>>))
            /\ probe_pc' = [probe_pc EXCEPT ![t] = "none"]
            /\ probe_start' = [probe_start EXCEPT ![t] = 0]
            /\ pc' = [pc EXCEPT ![t] = "wait"]
       ELSE /\ probe_pc' = [probe_pc EXCEPT ![t] = "sleep"]
            /\ UNCHANGED <<state, ready, ready_sets, log_queue, pc, probe_start>>
    /\ Track
    /\ UNCHANGED <<cfg_vars, topo_vars, proc, start_time, end_time, pty_primary, pty_secondary,
                   run_pc, pump_pc, child, returncode, written, pty_buf,
                   open_fds, now, quits>>

\* sleep(0.5) is over: spawn the next probe child
ProbeRetry(t) ==
    /\ pc[t] = "probe"
    /\ probe_pc[t] = "sleep"
    /\ probe_pc' = [probe_pc EXCEPT ![t] = "probing"]
    /\ UNCHANGED <<cfg_vars, topo_vars, state, ready, ready_sets, proc, start_time, end_time, pty_primary,
                   pty_secondary, log_queue, run_pc, pc, probe_start, pump_pc, child,
                   returncode, written, pty_buf, open_fds, now, quits, ever_ready>>

\* wait_for's timer fires: the prober is cancelled, TimeoutError is handled
ReadyTimeout(t) ==
    /\ pc[t] = "probe"
    /\ now >= Deadline(t)
    /\ state' = [state EXCEPT ![t] = FAILED]
    /\ log_queue' = Append(log_queue, Rec(t, "READY TIMEOUT", <<>>))
    /\ probe_pc' = [probe_pc EXCEPT ![t] = "none"]
    /\ probe_start' = [probe_start EXCEPT ![t] = 0]
    /\ pc' = [pc EXCEPT ![t] = "wait"]
    /\ Track
    /\ UNCHANGED <<cfg_vars, topo_vars, ready, ready_sets, proc, start_time, end_time, pty_primary,
                   pty_secondary, run_pc, pump_pc, child, returncode,
                   written, pty_buf, open_fds, now, quits>>

\* ------------------------------------------------------------------ pump()
\* PutAll with the lines of a chunk put last line first
PutAllReversed(q, t, lines) ==
    q \o [i \in 1..Len(lines) |-> Rec(t, "out", lines[Len(lines) + 1 - i])]

\* for line in text.splitlines(): await self.log_queue.put(...)
PutAll(q, t, lines) ==
    q \o [i \in 1..Len(lines) |-> Rec(t, "out", lines[i])]

\* os.read returns a chunk, the first n bytes of what the child has written
\* and the pump has not read: one record per line of the chunk, then the
\* pump reads again
PumpRead(t, n) ==
    /\ pump_pc[t] \in {"reading", "last"}
    /\ n \in 1..Len(pty_buf[t])
    /\ n <= READ_SIZE
    /\ log_queue' = PutAll(log_queue, t, splitlines(SubSeq(pty_buf[t], 1, n)))
    /\ pty_buf' = [pty_buf EXCEPT ![t] = SubSeq(@, n + 1, Len(@))]
    /\ pump_pc' = [pump_pc EXCEPT ![t] = IF @ = "last" THEN "done" ELSE @]
    /\ UNCHANGED <<cfg_vars, topo_vars, state, ready, ready_sets, proc, start_time, end_time, pty_primary,
                   pty_secondary, run_pc, pc, probe_pc, probe_start, child, returncode,
                   written, open_fds, now, quits, ever_ready>>

\* os.read returns nothing or raises (the child side is closed and drained,
\* or the descriptor was closed under the pump): the pump ends
PumpStop(t) ==
    /\ \/ pump_pc[t] = "reading" /\ child[t] = "exited" /\ pty_buf[t] = <<>>
       \/ pump_pc[t] = "last"
    /\ pump_pc' = [pump_pc EXCEPT ![t] = "done"]
    /\ UNCHANGED <<cfg_vars, topo_vars, state, ready, ready_sets, proc, start_time, end_time, pty_primary,
                   pty_secondary, log_queue, run_pc, pc, probe_pc, probe_start, child,
                   returncode, written, pty_buf, open_fds, now, quits, ever_ready>>

\* ------------------------------------------------------------- environment
RECURSIVE TotalWritten(_)
TotalWritten(S) ==
    IF S = {} THEN 0
    ELSE LET t == CHOOSE x \in S : TRUE
         IN  Len(written[t]) + TotalWritten(S \ {t})

\* the child writes its next byte to the terminal
ChildWrite(t, nl) ==
    /\ child[t] = "alive"
    /\ TotalWritten(Tasks) < MaxBytes
    /\ written' = [written EXCEPT ![t] = Append(@, Byte(Len(@) + 1, nl))]
    /\ pty_buf' = [pty_buf EXCEPT ![t] = Append(@, Byte(Len(written[t]) + 1, nl))]
    /\ UNCHANGED <<cfg_vars, topo_vars, state, ready, ready_sets, proc, start_time, end_time, pty_primary,
                   pty_secondary, log_queue, run_pc, pc, probe_pc, probe_start, pump_pc,
                   child, returncode, open_fds, now, quits, ever_ready>>

\* the child exits by itself
ChildExit(t, code) ==
    /\ child[t] = "alive"
    /\ child' = [child EXCEPT ![t] = "exited"]
    /\ returncode' = [returncode EXCEPT ![t] = code]
    /\ UNCHANGED <<cfg_vars, topo_vars, state, ready, ready_sets, proc, start_time, end_time, pty_primary,
                   pty_secondary, log_queue, run_pc, pc, probe_pc, probe_start, pump_pc,
                   written, pty_buf, open_fds, now, quits, ever_ready>>

NextInstant == CHOOSE i \in Instants : i > now /\ \A j \in Instants : j > now => i <= j

\* The clock moves to the next instant; a wait_for timer that is due fires
\* before the clock moves past its deadline.  Only supervisors read the clock:
\* instant 1 is the one at which run() launches them, and once none is left
\* its value is never read again.
Tick ==
    /\ \E i \in Instants : i > now
    /\ \E t \in Tasks : Active(t)
    /\ now' = NextInstant
    /\ \A t \in Tasks : pc[t] = "probe" => NextInstant <= Deadline(t)
    /\ UNCHANGED <<cfg_vars, topo_vars, state, ready, ready_sets, proc, start_time, end_time, pty_primary,
                   pty_secondary, log_queue, run_pc, pc, probe_pc, probe_start, pump_pc,
                   child, returncode, written, pty_buf, open_fds, quits, ever_ready>>

\* ------------------------------------------------------------- action_quit
\* the tasks whose process group is signalled: tr.proc and tr.proc.pid
Signalled(t) == proc[t]

\* QuitState with every task that has a process handle marked Failed
QuitStateFailed(t) == IF proc[t] THEN FAILED ELSE state[t]

\* the state action_quit leaves in a runtime record: it writes none
QuitState(t) == state[t]

\* CancelledByQuit with the supervisors blocked on the barrier left alone
CancelledUnlessBlocked(t) == Active(t) /\ pc[t] # "deps"

\* the supervisors that gather's cancellation ends: all that have not finished
CancelledByQuit(t) == Active(t)

\* whether cancelling the backend task still reaches the supervisors
CancelReaches == run_pc \in {"start", "gather"}

\* the tasks whose PTY master action_quit closes: fd >= 0
ClosedByQuit == {t \in Tasks : pty_primary[t] >= 0}

\* MarkedFd with the descriptor left in the record after it is closed
MarkedFdKept(t) == pty_primary[t]

\* MarkedFd with the closed descriptor marked 0, a number a descriptor can have
MarkedFdZero(t) == 0

\* what action_quit writes into tr.pty_primary after closing it
MarkedFd(t) == -1

action_quit ==
    /\ quits < MaxQuits
    /\ quits' = quits + 1
    \* SIGTERM, then SIGKILL, to the group of every stored process handle
    /\ child' = [t \in Tasks |->
                    IF Signalled(t) /\ child[t] = "alive" THEN "exited" ELSE child[t]]
    /\ returncode' = [t \in Tasks |->
                    IF Signalled(t) /\ child[t] = "alive" THEN SIGKILLED ELSE returncode[t]]
    \* cancel run(): gather cancels every supervisor that has not finished
    /\ IF CancelReaches
       THEN /\ run_pc' = "cancelling"
            /\ pc' = [t \in Tasks |-> IF CancelledByQuit(t) THEN "cancelled" ELSE pc[t]]
            /\ probe_pc' = [t \in Tasks |-> "none"]
            /\ probe_start' = [t \in Tasks |-> 0]
       ELSE UNCHANGED <<run_pc, pc, probe_pc, probe_start>>
    \* close every PTY master and mark it -1
    /\ open_fds' = open_fds \ {pty_primary[t] : t \in ClosedByQuit}
    /\ pty_primary' = [t \in Tasks |->
                          IF t \in ClosedByQuit THEN MarkedFd(t) ELSE pty_primary[t]]
    /\ pump_pc' = [t \in Tasks |-> IF pump_pc[t] = "reading" THEN "last" ELSE pump_pc[t]]
    /\ state' = [t \in Tasks |-> QuitState(t)]
    /\ Track
    /\ UNCHANGED <<cfg_vars, topo_vars, ready, ready_sets, proc, start_time, end_time, pty_secondary,
                   log_queue, written, pty_buf, now>>

\* -------------------------------------------------------------------- Next
\* Supervision: the supervisors, the probers, run(), the children's exits,
\* the clock and the quit key.  The children are silent and their pumps stay
\* blocked in os.read.
Next ==
    \/ RunStart
    \/ RunRaise
    \/ RunReturn
    \/ RunCancelled
    \/ \E t \in Tasks, o \in SpawnOutcomes : EnterRunning(t, o)
    \/ \E t \in Tasks : SpawnDone(t)
    \/ \E t \in Tasks : ObserveExit(t)
    \/ \E t \in Tasks, ok \in BOOLEAN : ProbeExit(t, ok)
    \/ \E t \in Tasks : ProbeRetry(t)
    \/ \E t \in Tasks : ReadyTimeout(t)
    \/ \E t \in Tasks, code \in ExitCodes : ChildExit(t, code)
    \/ Tick
    \/ action_quit

Spec == Init /\ [][Next]_vars

\* the configurations that leave every ready_timeout at its default
InitDefault == Init /\ ready_timeout = [t \in Tasks |-> READY_TIMEOUT]

\* The event loop runs every coroutine that is ready to run: run() itself,
\* its unwinding after a cancellation, and a supervisor whose barrier is open.
FairSpec ==
    /\ InitDefault /\ [][Next]_vars
    /\ WF_vars(RunStart)
    /\ WF_vars(RunCancelled)
    /\ \A t \in Tasks : WF_vars(\E o \in SpawnOutcomes : EnterRunning(t, o))

\* Supervision with the children's output and the pumps, in the runs in which
\* every spawn succeeds, every child that exits does so with status 0, no
\* readiness timeout is due and the quit key is not pressed.
NextIO ==
    \/ RunStart
    \/ RunReturn
    \/ \E t \in Tasks : EnterRunning(t, "ok")
    \/ \E t \in Tasks : SpawnDone(t)
    \/ \E t \in Tasks : ObserveExit(t)
    \/ \E t \in Tasks, ok \in BOOLEAN : ProbeExit(t, ok)
    \/ \E t \in Tasks : ProbeRetry(t)
    \/ \E t \in Tasks : ChildExit(t, 0)
    \/ \E t \in Tasks, n \in 1..MaxBytes : PumpRead(t, n)
    \/ \E t \in Tasks : PumpStop(t)
    \/ \E t \in Tasks, nl \in BOOLEAN : ChildWrite(t, nl)

\* a oneshot and a probed service that may depend on it: between them they
\* put every kind of status record next to the output records
InitIO == InitDefault /\ kind[1] = "oneshot" /\ HasProbe(2)

SpecIO == InitIO /\ [][NextIO]_vars

\* ------------------------------------------------------------- load_config
\* a name that no [[task]] row of the file carries
Unknown == 0

\* the depends_on lists a row may carry: load_config takes them as written
ConfigDeps == UNION {[1..n -> Tasks \cup {Unknown}] : n \in 0..MaxDeps}

\* a configuration file on disk, nothing loaded yet
InitLoad ==
    /\ kind \in [Tasks -> Kinds]
    /\ ready_cmd \in [Tasks -> BOOLEAN]
    /\ \A t \in Tasks : kind[t] = "oneshot" => ~ready_cmd[t]
    /\ depends_on \in [Tasks -> ConfigDeps]
    /\ ready_timeout = [t \in Tasks |-> READY_TIMEOUT]
    /\ Constructed
    /\ run_pc = "file"
    /\ topo_cfgs = <<>>
    /\ topo_result = NoResult

\* load_config(path) builds one TaskCfg per row and returns the mapping; the
\* orchestrator is constructed from it and its run() is scheduled
load_config ==
    /\ run_pc = "file"
    /\ run_pc' = "start"
    /\ UNCHANGED <<cfg_vars, topo_vars, state, ready, ready_sets, proc, start_time,
                   end_time, pty_primary, pty_secondary, log_queue, pc, probe_pc,
                   probe_start, pump_pc, child, returncode, written, pty_buf,
                   open_fds, now, quits, ever_ready>>

NextLoad ==
    \/ load_config
    \/ Next

SpecLoad == InitLoad /\ [][NextLoad]_vars

\* ------------------------------------------------- topo_order on its own
TopoTasks == 1..TopoN

\* the depends_on lists of the mappings handed to topo_order: up to MaxDeps
\* existing names, repetitions included, in non-decreasing order
TopoDeps ==
    {s \in UNION {[1..n -> TopoTasks] : n \in 0..MaxDeps} :
        \A i \in 1..(Len(s) - 1) : s[i] <= s[i + 1]}

InitTopo ==
    /\ topo_cfgs \in [TopoTasks -> TopoDeps]
    /\ topo_result = NoResult
    /\ kind = [t \in Tasks |-> "oneshot"]
    /\ ready_cmd = [t \in Tasks |-> FALSE]
    /\ depends_on = [t \in Tasks |-> <<>>]
    /\ ready_timeout = [t \in Tasks |-> READY_TIMEOUT]
    /\ Constructed
    /\ run_pc = "file"

\* order = topo_order(cfgs)
TopoApply ==
    /\ topo_result = NoResult
    /\ topo_cfgs # <<>>
    /\ topo_result' = topo_order(topo_cfgs)
    /\ UNCHANGED <<cfg_vars, topo_cfgs, state, ready, ready_sets, proc, start_time,
                   end_time, pty_primary, pty_secondary, log_queue, run_pc, pc,
                   probe_pc, probe_start, pump_pc, child, returncode, written,
                   pty_buf, open_fds, now, quits, ever_ready>>

NextTopo == TopoApply

SpecTopo == InitTopo /\ [][NextTopo]_vars

\* ------------------------------------------------------------ vocabulary
\* a dependency graph has a cycle iff some non-empty set of its tasks is
\* closed under "has a dependency in the set"
HasCycle(deps) ==
    \E S \in SUBSET (DOMAIN deps) :
        S # {} /\ \A n \in S : \E d \in Range(deps[n]) : d \in S

HasUnknown(deps) == \E n \in DOMAIN deps : \E d \in Range(deps[n]) : d \notin DOMAIN deps

LongLived(t) == kind[t] \in {"service", "daemon"}
Dependents(a) == {b \in Tasks : a \in Range(depends_on[b])}

\* the records "[t] text" put on the log queue so far
Records(t, text) == {i \in 1..Len(log_queue) :
                        log_queue[i].name = t /\ log_queue[i].text = text}

\* ------------------------------------------------------------------ claims
\* C1: a task B that lists A leaves Pending only after A's state has been
\* Ready at some earlier moment; if A fails without ever having been Ready,
\* B stays Pending.
C1_TopologicalDominance ==
    [][\A b \in Tasks : \A a \in Range(depends_on[b]) :
          (state[b] = PENDING /\ state'[b] # PENDING) => a \in ever_ready]_vars

\* C2: whenever a task's ready latch is set the task's state is Ready at that
\* moment, so the latch of a task that has never been Ready is never set.
C2_LatchOnlyWhenReady ==
    \A t \in Tasks : ready[t] => t \in ever_ready

\* C3: a task's state changes only along Pending->Running, Running->Ready,
\* Running->Failed and Ready->Failed, the last for services and daemons only;
\* no task returns to Pending or Running and no task leaves Failed.
Edge(t, from, to) ==
    \/ from = PENDING /\ to = RUNNING
    \/ from = RUNNING /\ to \in {READY, FAILED}
    \/ from = READY /\ to = FAILED /\ LongLived(t)

C3_StateEdges ==
    [][\A t \in Tasks : state'[t] # state[t] => Edge(t, state[t], state'[t])]_vars

\* a service went Ready and then Failed; another failed by readiness timeout
\* and saw its child exit with code 0 afterwards
C3_Witness ==
    \E t \in Tasks :
        /\ HasProbe(t) /\ state[t] = FAILED /\ pc[t] = "done"
        /\ returncode[t] = 0 /\ t \notin ever_ready

\* C4: a service with a probe that runs into the readiness timeout becomes
\* Failed, exactly one "READY TIMEOUT" record is put on the log queue, its
\* latch is not set then nor later, and its dependents stay Pending.
C4_TimedOut(t) == Records(t, "READY TIMEOUT") # {}

C4_ReadyTimeout ==
    /\ [](\A t \in Tasks : C4_TimedOut(t) =>
            /\ HasProbe(t)
            /\ state[t] = FAILED
            /\ Cardinality(Records(t, "READY TIMEOUT")) = 1
            /\ ~ready[t]
            /\ \A b \in Dependents(t) : state[b] = PENDING)
    /\ [][\A t \in Tasks :
            (pc[t] = "probe" /\ pc'[t] = "wait" /\ state'[t] # READY)
                => (state'[t] = FAILED /\ ~ready'[t] /\ C4_TimedOut(t)')]_vars

\* the timed-out service's child has exited since, and a dependent is waiting
C4_Witness ==
    \E t \in Tasks :
        /\ C4_TimedOut(t) /\ pc[t] = "done" /\ returncode[t] = 0
        /\ \E b \in Dependents(t) : pc[b] = "deps"

\* C5: the prober's deadline is the task's configured ready_timeout: a task
\* still probing has not used up its ready_timeout.
C5_ConfiguredDeadline ==
    \A t \in Tasks : pc[t] = "probe" => now <= probe_start[t] + ready_timeout[t]

\* C6: a spawn error makes the task Failed and its supervisor returns; no
\* supervisor raises, run() does not raise, no task is Running without a child.
C6_SpawnErrorHandled ==
    /\ \A t \in Tasks : pc[t] # "raised"
    /\ \A t \in Tasks : state[t] = RUNNING => child[t] # "none"
    /\ run_pc # "raised"

\* C7: a oneshot is never Ready while its child is alive: it is Running from
\* spawn until the exit is observed, then Ready iff the exit code is 0 and
\* Failed iff it is not.
C7_OneshotReadyIffZero ==
    \A t \in Tasks : kind[t] = "oneshot" =>
        /\ child[t] = "alive" => state[t] # READY
        /\ pc[t] \in {"spawn", "wait"} => state[t] = RUNNING
        /\ pc[t] = "done" =>
              /\ state[t] = READY <=> returncode[t] = 0
              /\ state[t] = FAILED <=> returncode[t] # 0

\* one oneshot finished Ready and another finished Failed
C7_Witness ==
    /\ \E t \in Tasks : kind[t] = "oneshot" /\ pc[t] = "done" /\ state[t] = READY
    /\ \E t \in Tasks : kind[t] = "oneshot" /\ pc[t] = "done" /\ state[t] = FAILED

\* C8: once a oneshot is Ready or Failed its state never changes again.
C8_OneshotTerminal ==
    [][\A t \in Tasks :
          (kind[t] = "oneshot" /\ state[t] \in {READY, FAILED})
              => state'[t] = state[t]]_vars

\* a oneshot finished Ready, the other task moved on, quit was pressed twice
C8_Witness ==
    \E t \in Tasks :
        /\ kind[t] = "oneshot" /\ state[t] = READY /\ quits = 2
        /\ \E u \in Tasks \ {t} : state[u] = FAILED

\* C9: when a service's or daemon's supervisor observes the child's exit, a
\* non-zero code sets Failed whatever the state was, code 0 leaves the state.
C9_LongLivedExit ==
    [][\A t \in Tasks :
          (LongLived(t) /\ pc[t] = "wait" /\ pc'[t] = "done")
              => state'[t] = (IF returncode[t] # 0 THEN FAILED ELSE state[t])]_vars

\* exits observed with code 0 in state Ready, with code 0 in state Failed and
\* with a non-zero code after Ready
C9_Witness ==
    /\ \E t \in Tasks : /\ LongLived(t) /\ pc[t] = "done"
                        /\ returncode[t] = 0 /\ state[t] = FAILED
    /\ \E t \in Tasks : /\ LongLived(t) /\ pc[t] = "done" /\ t \in ever_ready
                        /\ returncode[t] # 0 /\ state[t] = FAILED

\* C10: a daemon, and a service without a probe command, are Ready with their
\* latch set in the very step in which their child's handle is stored: that
\* step needs nothing but the spawn itself (no output, probe or exit of the
\* child, no step of another task), and the task stays Ready while the child
\* runs.
C10_ReadyOnSpawn ==
    \A t \in Tasks : (LongLived(t) /\ ~HasProbe(t)) =>
        /\ pc[t] = "spawn" => ENABLED SpawnDone(t)
        /\ proc[t] => (ready[t] /\ t \in ever_ready)
        /\ (pc[t] = "wait" /\ child[t] = "alive") => state[t] = READY

\* a dependent of a daemon is running while the daemon's child is alive
C10_Witness ==
    \E t \in Tasks :
        /\ kind[t] = "daemon" /\ ready_cmd[t] /\ child[t] = "alive" /\ state[t] = READY
        /\ \E b \in Dependents(t) : state[b] = RUNNING /\ child[b] = "alive"

\* C11: tr.ready.set() is executed at most once for every task, on every path
\* through the supervisor and the prober, and a latch that is set stays set.
C11_LatchSetOnce ==
    /\ [](\A t \in Tasks : ready_sets[t] <= 1 /\ (ready[t] <=> ready_sets[t] = 1))
    /\ [][\A t \in Tasks : ready[t] => ready'[t]]_vars

\* a probed service and a daemon both set their latch, saw their children
\* exit and returned; quit was pressed afterwards
C11_Witness ==
    /\ \E t \in Tasks : HasProbe(t) /\ pc[t] = "done" /\ ready_sets[t] = 1
    /\ \E t \in Tasks : kind[t] = "daemon" /\ pc[t] = "done" /\ ready_sets[t] = 1
    /\ quits = 1

\* C12: a configuration whose dependency graph has a cycle, or that names a
\* dependency that is no task, is rejected at load: no orchestrator is
\* constructed from it and none of its tasks leaves Pending.
C12_InvalidRejected ==
    (HasCycle(depends_on) \/ HasUnknown(depends_on)) =>
        /\ run_pc \in {"file", "rejected"}
        /\ \A t \in Tasks : state[t] = PENDING

\* C13: for a mapping whose dependencies all name existing tasks, topo_order
\* returns a permutation of the task names in which every task comes after
\* each of its dependencies (also one listed twice) when the graph is acyclic,
\* and raises exactly when the graph has a cycle.
Pos(order, n) == CHOOSE i \in 1..Len(order) : order[i] = n

C13_TopoOrder ==
    topo_result # NoResult =>
        IF HasCycle(topo_cfgs) THEN topo_result.raised
        ELSE /\ ~topo_result.raised
             /\ Len(topo_result.order) = TopoN
             /\ Range(topo_result.order) = TopoTasks
             /\ \A n \in TopoTasks : \A d \in Range(topo_cfgs[n]) :
                   Pos(topo_result.order, d) < Pos(topo_result.order, n)

\* the first task lists the last one twice and the order returned puts the
\* last task first
C13_Witness ==
    /\ topo_result # NoResult /\ ~topo_result.raised
    /\ topo_cfgs[1] = <<TopoN, TopoN>>
    /\ topo_result.order[1] = TopoN

\* C14: run() completes exactly when all supervisors have completed: it has
\* not returned or raised while a supervisor it launched is still active.
C14_RunCompletes ==
    run_pc \in {"returned", "raised"} => \A t \in Tasks : ~Active(t)

\* C15: a second action_quit, in any state reached after a first one, writes
\* no task's state, timestamps or slave fd field and leaves every master fd
\* field at the -1 the first left; every descriptor it closes is open (none is
\* closed a second time); a child that has exited keeps its exit status (no
\* signal reaches the group of a killed and reaped child).
C15_QuitIdempotent ==
    [][(quits >= 1 /\ quits' = quits + 1) =>
          /\ state' = state
          /\ start_time' = start_time /\ end_time' = end_time
          /\ pty_secondary' = pty_secondary
          /\ \A t \in Tasks : pty_primary'[t] = -1
          /\ \A t \in ClosedByQuit : pty_primary[t] \in open_fds
          /\ \A t \in Tasks : child[t] = "exited" =>
                (child'[t] = "exited" /\ returncode'[t] = returncode[t])]_vars

\* after the second quit: the first one killed a running child and cancelled
\* a supervisor that was waiting on the barrier
C15_Witness ==
    /\ quits = 2
    /\ \E t \in Tasks : proc[t] /\ returncode[t] = SIGKILLED /\ pty_primary[t] = -1
    /\ \E u \in Tasks : pc[u] = "cancelled" /\ state[u] = PENDING

\* C16: once action_quit has run no task's child is alive, a child whose
\* spawn was in progress included, and no task child is spawned afterwards.
C16_NoChildAfterQuit ==
    /\ [](quits >= 1 => \A t \in Tasks : child[t] # "alive")
    /\ [][quits >= 1 => \A t \in Tasks : child[t] = "none" => child'[t] = "none"]_vars

\* C17: after action_quit, run() eventually completes, whatever the
\* supervisors were blocked on (dependency latches that will never be set, the
\* probe loop, a child's exit).
C17_RunEndsAfterQuit ==
    (quits >= 1) ~> (run_pc \in {"returned", "raised", "cancelled"})

\* run() ended by cancellation; quit found a supervisor on the barrier of a
\* probed service that was still being probed
C17_Witness ==
    /\ run_pc = "cancelled"
    /\ \E t \in Tasks :
          /\ pc[t] = "cancelled" /\ state[t] = PENDING
          /\ \E d \in Range(depends_on[t]) :
                HasProbe(d) /\ pc[d] = "cancelled" /\ state[d] = RUNNING /\ proc[d]

\* C20: under fair scheduling and without a quit, a Pending task whose
\* dependencies all have their latch set (a task without dependencies in
\* particular) eventually enters Running, whatever the other tasks' children
\* and probes do.
C20_NoStarvation ==
    \A t \in Tasks :
        (state[t] = PENDING /\ quits = 0 /\ \A d \in Range(depends_on[t]) : ready[d])
            ~> (state[t] = RUNNING \/ quits >= 1)

\* a task without dependencies has entered Running while the other task, a
\* oneshot, is waiting for its child, which is still alive; no quit so far
C20_Witness ==
    /\ quits = 0
    /\ \E t, u \in Tasks :
          /\ t # u /\ depends_on[t] = <<>> /\ state[t] # PENDING
          /\ kind[u] = "oneshot" /\ child[u] = "alive" /\ pc[u] = "wait"

\* the lines of the output records of task t, in queue order
OutLines(t) ==
    LET recs == SelectSeq(log_queue, LAMBDA r : r.name = t /\ r.text = "out")
    IN  [i \in 1..Len(recs) |-> recs[i].line]

RECURSIVE Flatten(_)
Flatten(ss) == IF ss = <<>> THEN <<>> ELSE Head(ss) \o Flatten(Tail(ss))

\* the bytes of bs that are no line terminators, by position
Chars(bs) ==
    LET cs == SelectSeq(bs, LAMBDA b : ~b.nl)
    IN  [i \in 1..Len(cs) |-> cs[i].pos]

\* what the pump of t has read so far
Consumed(t) == SubSeq(written[t], 1, Len(written[t]) - Len(pty_buf[t]))

\* C18: the output records of a task carry, in queue order, what its child
\* wrote in the order it wrote it, however its pump is interleaved with the
\* other pump and with status records; its "started" record precedes them all.
C18_OutputInOrder ==
    \A t \in Tasks :
        /\ Flatten(OutLines(t)) = Chars(Consumed(t))
        /\ \A i \in Records(t, "out") : \E j \in Records(t, "started") : j < i

\* one chunk of a task gave two records, and an output record of the other
\* task and a status record lie between that task's "started" and them
C18_Witness ==
    \E t \in Tasks : \E u \in Tasks \ {t} :
        \E i, j, k, l \in 1..Len(log_queue) :
            /\ i < j /\ j < k /\ k < l
            /\ log_queue[i].name = t /\ log_queue[i].text = "started"
            /\ log_queue[j].name = u /\ log_queue[j].text = "out"
            /\ log_queue[k].name = t /\ log_queue[k].text = "out"
            /\ log_queue[l].name = t /\ log_queue[l].text = "out"
            /\ Len(pty_buf[t]) = 0 /\ Len(written[t]) = 2
            /\ \E m \in 1..Len(log_queue) : log_queue[m].text = "ready"

\* C19: however the child's bytes are divided into reads, the lines of the
\* task's output records are a prefix of the lines of the child's whole
\* output: every line gives exactly one record.
IsPrefix(a, b) == Len(a) <= Len(b) /\ SubSeq(b, 1, Len(a)) = a

C19_OneRecordPerLine ==
    \A t \in Tasks : IsPrefix(OutLines(t), splitlines(written[t]))

\* C21: start_time is written once, in the step that takes the task from
\* Pending to Running, so it is zero exactly while the task is Pending;
\* end_time is zero as long as the child has not exited, and once written it
\* is not smaller than start_time.
C21_Timestamps ==
    /\ [](\A t \in Tasks :
            /\ start_time[t] = 0 <=> state[t] = PENDING
            /\ child[t] # "exited" => end_time[t] = 0
            /\ end_time[t] # 0 => end_time[t] >= start_time[t])
    /\ [][\A t \in Tasks :
            start_time'[t] # start_time[t]
                => (state[t] = PENDING /\ state'[t] = RUNNING)]_vars

\* one task's exit was observed later than it started; the other's child was
\* killed by the quit key and its exit never observed
C21_Witness ==
    /\ \E t \in Tasks : end_time[t] > start_time[t] /\ start_time[t] > 0
    /\ \E u \in Tasks : child[u] = "exited" /\ end_time[u] = 0 /\ start_time[u] > 0

\* ---------------------------------------------------------------- shutdown
\* Supervision with the pumps and the quit key, in the runs in which every
\* spawn succeeds, every child that exits by itself does so with status 0, no
\* readiness timeout is due and every byte a child writes ends a line.
NextShutdown ==
    \/ RunStart
    \/ RunReturn
    \/ RunCancelled
    \/ \E t \in Tasks : EnterRunning(t, "ok")
    \/ \E t \in Tasks : SpawnDone(t)
    \/ \E t \in Tasks : ObserveExit(t)
    \/ \E t \in Tasks, ok \in BOOLEAN : ProbeExit(t, ok)
    \/ \E t \in Tasks : ProbeRetry(t)
    \/ \E t \in Tasks : ChildExit(t, 0)
    \/ \E t \in Tasks, n \in 1..MaxBytes : PumpRead(t, n)
    \/ \E t \in Tasks : PumpStop(t)
    \/ \E t \in Tasks : ChildWrite(t, TRUE)
    \/ action_quit

SpecShutdown == InitIO /\ [][NextShutdown]_vars

\* the mutable fields of the runtime record of task t
Runtime(t) == <<state[t], ready[t], proc[t], start_time[t], end_time[t],
                pty_primary[t], pty_secondary[t]>>

\* a step of _run_task(t), of the prober it awaits, of the pump it started
SupervisorStep(t) ==
    \/ \E o \in SpawnOutcomes : EnterRunning(t, o)
    \/ SpawnDone(t)
    \/ ReadyTimeout(t)
    \/ ObserveExit(t)
ProberStep(t) == (\E ok \in BOOLEAN : ProbeExit(t, ok)) \/ ProbeRetry(t)
PumpStep(t) == (\E n \in 1..MaxBytes : PumpRead(t, n)) \/ PumpStop(t)

\* no step of an activity of task t writes a runtime field of another task
OthersUntouched ==
    \A t \in Tasks :
        (SupervisorStep(t) \/ ProberStep(t) \/ PumpStep(t))
            => \A u \in Tasks \ {t} : Runtime(u)' = Runtime(u)

\* C22 as stated: a step of the supervisor, the pump or the prober of a task
\* leaves the runtime fields of every other task as they are, and the runtime
\* fields of a task are written by nothing but its own supervisor (the prober
\* it awaits counted as part of it).
C22_OnlyOwnSupervisor ==
    [][/\ OthersUntouched
       /\ \A t \in Tasks :
            Runtime(t)' # Runtime(t) => (SupervisorStep(t) \/ ProberStep(t))]_vars

\* C22, amended: a step of the supervisor, the pump or the prober of a task
\* leaves the runtime fields of every other task as they are; the runtime
\* fields of a task are written by its own supervisor and the prober it
\* awaits, and besides them only by action_quit, which writes -1 into the
\* pty_primary of a task whose PTY master is open and no other field.
C22_OwnSupervisorOrQuit ==
    [][/\ OthersUntouched
       /\ \A t \in Tasks :
            Runtime(t)' # Runtime(t) =>
                \/ SupervisorStep(t) \/ ProberStep(t)
                \/ /\ action_quit
                   /\ pty_primary[t] >= 0
                   /\ Runtime(t)' = [Runtime(t) EXCEPT ![6] = -1]]_vars

\* the quit key was pressed while one task was Running with its PTY master
\* open, after the other task's supervisor had finished: the first task's
\* pty_primary is marked, its other fields are as its supervisor left them
C22_Witness ==
    /\ quits >= 1
    /\ \E t \in Tasks : \E u \in Tasks \ {t} :
          /\ state[t] = RUNNING /\ proc[t] /\ pty_primary[t] = -1
          /\ pty_secondary[t] >= 0 /\ start_time[t] > 0
          /\ state[u] = READY /\ end_time[u] > 0

\* C23: once the quit key has been handled, no pump puts a further output
\* record on the log queue and no prober spawns a further probe child.
C23_ShutdownStopsPumps ==
    [][quits >= 1 =>
          \A t \in Tasks :
              /\ Len(OutLines(t))' = Len(OutLines(t))
              /\ ~(probe_pc[t] = "sleep" /\ probe_pc'[t] = "probing")]_vars

\* C24: the latch of a long-lived task is set, and the task is moved to
\* Ready, only while its child is alive; a probed service whose child exited
\* during the probe loop is not made Ready by a later probe that succeeds.
C24_LatchOnlyWhileAlive ==
    [][\A t \in Tasks :
          (LongLived(t) /\ (\/ ~ready[t] /\ ready'[t]
                            \/ state[t] # READY /\ state'[t] = READY))
              => child'[t] = "alive"]_vars

\* ---------------------------------------------------------------- liveness
\* the clock moves while no prober is waiting, or to an instant before the
\* deadline of every prober that is: no wait_for timer becomes due
TickBeforeDeadline ==
    /\ Tick
    /\ \A t \in Tasks : pc[t] = "probe" => now' < Deadline(t)

\* Supervision in the runs without quit key and spawn error in which no probe
\* loop reaches its readiness deadline.
NextLive ==
    \/ RunStart
    \/ RunReturn
    \/ \E t \in Tasks : EnterRunning(t, "ok")
    \/ \E t \in Tasks : SpawnDone(t)
    \/ \E t \in Tasks : ObserveExit(t)
    \/ \E t \in Tasks, ok \in BOOLEAN : ProbeExit(t, ok)
    \/ \E t \in Tasks : ProbeRetry(t)
    \/ \E t \in Tasks, code \in ExitCodes : ChildExit(t, code)
    \/ TickBeforeDeadline

\* The event loop runs every coroutine that is ready to run (run(), the
\* supervisors, the probers after their sleep); every child exits at some
\* time; a prober that is not timed out is one whose probe succeeds at some
\* attempt, however many attempts fail before.
LiveSpec ==
    /\ InitDefault /\ [][NextLive]_vars
    /\ WF_vars(RunStart)
    /\ WF_vars(RunReturn)
    /\ \A t \in Tasks :
          /\ WF_vars(EnterRunning(t, "ok"))
          /\ WF_vars(SpawnDone(t))
          /\ WF_vars(ObserveExit(t))
          /\ WF_vars(ProbeRetry(t))
          /\ WF_vars(\E code \in ExitCodes : ChildExit(t, code))
          /\ SF_vars(ProbeExit(t, TRUE))

\* C25: without quit and spawn error, when every child exits at some time
\* (with whatever status) and no probe loop is timed out, every task leaves
\* Pending, every supervisor finishes and run() returns.
C25_RunReturns ==
    <>(/\ run_pc = "returned"
       /\ \A t \in Tasks : state[t] # PENDING /\ pc[t] = "done")

\* run() has returned; a oneshot failed, and the probed service that depends
\* on it was started all the same, was probed and has finished
C25_Witness ==
    /\ run_pc = "returned"
    /\ \E t \in Tasks : \E u \in Dependents(t) :
          /\ kind[t] = "oneshot" /\ returncode[t] = 1 /\ state[t] = FAILED
          /\ HasProbe(u) /\ pc[u] = "done" /\ u \in ever_ready

====
